---- MODULE Spec2Model ----
(***************************************************************************)
(* ECFFT over a prime field: the 2x2 matrix primitive (utils/matrix.rs),   *)
(* the parameter tables of a curve (bls12_381.rs) and the precomputation,  *)
(* extension and evaluation those tables feed.                             *)
(*                                                                         *)
(* The field is scaled down: F is the prime field of order P = 37 (a 6-bit *)
(* prime held in 6 limbs of one bit, as the 381-bit prime of BLS12-381 is  *)
(* held in 6 limbs of 64 bits).  The curve is y^2 = x^3 + x + 1 over F,    *)
(* of order 48, with a point G = (1, 15) of order 16; the coset table is   *)
(* x(R + i*G) for R = (0, 1), the isogeny table the chain of 2-isogenies   *)
(* with kernels <8G>, <4 phi(G)>, ... as get_params.sage produces them.    *)
(***************************************************************************)
EXTENDS Integers, Sequences, FiniteSets, TLC

VARIABLES
    \* ---- utils/matrix.rs
    mop,        \* the last matrix call made
    mat0,       \* the matrix the call was made on
    mat,        \* that matrix as it is after the call
    mat_inv,    \* the result of mat.inverse()
    v,          \* the pair [x, y] handed to the call
    fwd,        \* mat_inv.multiply(mat.multiply(v))
    bwd,        \* mat.multiply(mat_inv.multiply(v))
    xy,         \* the two bindings after multiply_in_place
    \* ---- bls12_381.rs, the table files
    file,       \* the table file: [exists, tokens]
    loaded,     \* what the last load returned: [op, ok, val]
    \* ---- ecfft
    steps,      \* the result of precompute_on_coset: [built, ok, val]
    precomputation, \* the result of precompute(): [built, ok, val]
    call,       \* the last call made on the precomputations
    \* ---- ecfft, callers sharing the precomputation
    callers,    \* per caller, the call it is in and how far it has come
    bufs        \* per caller, the Vec its extend works in

vars == <<mop, mat0, mat, mat_inv, v, fwd, bwd, xy, file, loaded,
          steps, precomputation, call, callers, bufs>>

matVars == <<mop, mat0, mat, mat_inv, v, fwd, bwd, xy>>
loadVars == <<file, loaded>>
ecfftVars == <<steps, precomputation, call>>
sharedVars == <<callers, bufs>>

------------------------------------------------------------------------------
(* The field F.                                                            *)

\* The order of the field F (scaled down from the 381-bit BLS12-381 prime).
P == 37

F == 0 .. (P - 1)

\* The largest of the small field elements the matrix calls are tried on.
MaxElem == 3

\* The field elements the matrix calls are tried on: small ones and -1.
Elems == (0 .. MaxElem) \cup {P - 1}

FAdd(a, b) == (a + b) % P
FSub(a, b) == (a + (P - b)) % P
FNeg(a) == (P - a) % P
FMul(a, b) == (a * b) % P

RECURSIVE FPow(_, _)
\* a^e by square and multiply.
FPow(a, e) ==
    IF e = 0 THEN 1
    ELSE LET h == FPow(a, e \div 2)
             hh == FMul(h, h)
         IN IF e % 2 = 1 THEN FMul(hh, a) ELSE hh

\* The inverse of a non-zero element (Fermat).
FInv(a) == FPow(a, P - 2)

\* The elements of a sequence, computed once and stored (a Vec).
Vec(f) == f \o <<>>

\* A result: a value, or a panic.
Ok(val) == [ok |-> TRUE, val |-> <<val>>]
Panic == [ok |-> FALSE, val |-> <<>>]
Val(r) == r.val[1]

\* a / b: panics on a zero divisor.
FDiv(a, b) == IF b = 0 THEN Panic ELSE Ok(FMul(a, FInv(b)))

------------------------------------------------------------------------------
(* utils/matrix.rs                                                         *)

Matrix(a, b, c, d) == <<<<a, b>>, <<c, d>>>>

det(self) == FSub(FMul(self[1][1], self[2][2]), FMul(self[1][2], self[2][1]))

\* A faulty variant of inverse: the off-diagonal entries are not negated.
inverse_nonegation(self) ==
    LET a == self[1][1]
        b == self[1][2]
        c == self[2][1]
        d == self[2][2]
        dt == FSub(FMul(a, d), FMul(b, c))
        q == <<FDiv(d, dt), FDiv(b, dt), FDiv(c, dt), FDiv(a, dt)>>
    IN IF \E i \in 1..4 : ~q[i].ok THEN Panic
       ELSE Ok(Matrix(Val(q[1]), Val(q[2]), Val(q[3]), Val(q[4])))

\* A faulty variant of inverse: a zero determinant is divided by as if it were one.
inverse_unchecked(self) ==
    LET a == self[1][1]
        b == self[1][2]
        c == self[2][1]
        d == self[2][2]
        dt == FSub(FMul(a, d), FMul(b, c))
        i == IF dt = 0 THEN 1 ELSE FInv(dt)
    IN Ok(Matrix(FMul(d, i), FMul(FNeg(b), i), FMul(FNeg(c), i), FMul(a, i)))

\* A faulty variant of inverse: the determinant is taken as a*d + b*c.
inverse_plusdet(self) ==
    LET a == self[1][1]
        b == self[1][2]
        c == self[2][1]
        d == self[2][2]
        dt == FAdd(FMul(a, d), FMul(b, c))
        q == <<FDiv(d, dt), FDiv(FNeg(b), dt), FDiv(FNeg(c), dt), FDiv(a, dt)>>
    IN IF \E i \in 1..4 : ~q[i].ok THEN Panic
       ELSE Ok(Matrix(Val(q[1]), Val(q[2]), Val(q[3]), Val(q[4])))

\* Matrix::inverse: [[d/det, -b/det], [-c/det, a/det]]; each division panics
\* when det is zero.
inverse(self) ==
    LET a == self[1][1]
        b == self[1][2]
        c == self[2][1]
        d == self[2][2]
        dt == FSub(FMul(a, d), FMul(b, c))
        q == <<FDiv(d, dt), FDiv(FNeg(b), dt), FDiv(FNeg(c), dt), FDiv(a, dt)>>
    IN IF \E i \in 1..4 : ~q[i].ok THEN Panic
       ELSE Ok(Matrix(Val(q[1]), Val(q[2]), Val(q[3]), Val(q[4])))

\* Matrix::multiply: [a*x + b*y, c*x + d*y].
multiply(self, w) ==
    LET a == self[1][1]
        b == self[1][2]
        c == self[2][1]
        d == self[2][2]
        x == w[1]
        y == w[2]
    IN <<FAdd(FMul(a, x), FMul(b, y)), FAdd(FMul(c, x), FMul(d, y))>>

\* A faulty variant of multiply_in_place: *x is assigned before *y is computed.
multiply_in_place_sequential(self, x, y) ==
    LET a == self[1][1]
        b == self[1][2]
        c == self[2][1]
        d == self[2][2]
        x1 == FAdd(FMul(a, x), FMul(b, y))
        y1 == FAdd(FMul(c, x1), FMul(d, y))
    IN [self |-> self, x |-> x1, y |-> y1]

\* Matrix::multiply_in_place: the pair (a, b) is computed from the old *x and
\* *y, then *x = a and *y = b; self is read only.
multiply_in_place(self, x, y) ==
    LET a == self[1][1]
        b == self[1][2]
        c == self[2][1]
        d == self[2][2]
        ab == <<FAdd(FMul(a, x), FMul(b, y)), FAdd(FMul(c, x), FMul(d, y))>>
        x1 == ab[1]
        y1 == ab[2]
    IN [self |-> self, x |-> x1, y |-> y1]

NoMatrix == Matrix(0, 0, 0, 0)

MatInit ==
    /\ mop = "none"
    /\ mat0 = NoMatrix
    /\ mat = NoMatrix
    /\ mat_inv = Panic
    /\ v = <<0, 0>>
    /\ fwd = <<>>
    /\ bwd = <<>>
    /\ xy = <<0, 0>>

\* One round of test_inverse: a matrix and a pair are drawn, the matrix is
\* inverted (the round ends there if that panics) and the pair is sent
\* through the matrix and its inverse in both orders.
TestInverse ==
    /\ mop = "none"
    /\ \E a \in Elems, b \in Elems, c \in Elems, d \in Elems, x \in Elems, y \in Elems :
        LET m == Matrix(a, b, c, d)
            mi == inverse(m)
        IN /\ mop' = "test_inverse"
           /\ mat0' = m
           /\ mat' = m
           /\ mat_inv' = mi
           /\ v' = <<x, y>>
           /\ fwd' = IF mi.ok THEN multiply(Val(mi), multiply(m, <<x, y>>)) ELSE <<>>
           /\ bwd' = IF mi.ok THEN multiply(m, multiply(Val(mi), <<x, y>>)) ELSE <<>>
           /\ xy' = <<x, y>>
    /\ UNCHANGED <<file, loaded, steps, precomputation, call, sharedVars>>

\* A call of multiply_in_place on two bindings holding x and y.
MultiplyInPlace ==
    /\ mop = "none"
    /\ \E a \in Elems, b \in Elems, c \in Elems, d \in Elems, x \in Elems, y \in Elems :
        LET r == multiply_in_place(Matrix(a, b, c, d), x, y)
        IN /\ mop' = "multiply_in_place"
           /\ mat0' = Matrix(a, b, c, d)
           /\ mat' = r.self
           /\ v' = <<x, y>>
           /\ xy' = <<r.x, r.y>>
           /\ fwd' = <<>>
           /\ bwd' = <<>>
           /\ mat_inv' = Panic
    /\ UNCHANGED <<file, loaded, steps, precomputation, call, sharedVars>>

\* The call has returned and its values are dropped.
MatReturn ==
    /\ mop # "none"
    /\ mop' = "none"
    /\ mat0' = NoMatrix
    /\ mat' = NoMatrix
    /\ mat_inv' = Panic
    /\ v' = <<0, 0>>
    /\ fwd' = <<>>
    /\ bwd' = <<>>
    /\ xy' = <<0, 0>>
    /\ UNCHANGED <<file, loaded, steps, precomputation, call, sharedVars>>

------------------------------------------------------------------------------
(* bls12_381.rs: the parameter tables                                      *)

\* Number of limbs needed to represent field elements.
NUM_LIMBS == 6

\* The radix of a limb (scaled down from 2^64): 6 limbs hold 0 .. 63.
LimbRadix == 2

\* The domain size exponent (scaled down from 15).
LOG_N == 3

N == 2 ^ LOG_N

Min(a, b) == IF a < b THEN a ELSE b

\* A token of a file is the sequence of its characters.  The value of a
\* decimal digit, and -1 of every other character.
to_digit(c) ==
    CASE c = "0" -> 0 [] c = "1" -> 1 [] c = "2" -> 2 [] c = "3" -> 3
      [] c = "4" -> 4 [] c = "5" -> 5 [] c = "6" -> 6 [] c = "7" -> 7
      [] c = "8" -> 8 [] c = "9" -> 9
      [] OTHER -> -1

RECURSIVE from_digits(_, _)
\* The digits accumulated from the left, result * 10 + digit: an error on a
\* character that is no digit and when the result no longer fits a limb.
from_digits(digits, result) ==
    IF Len(digits) = 0 THEN Ok(result)
    ELSE LET x == to_digit(Head(digits))
         IN IF x < 0 THEN Panic
            ELSE IF result * 10 + x >= LimbRadix THEN Panic
            ELSE from_digits(Tail(digits), result * 10 + x)

\* str::parse::<u64>().unwrap(): one optional leading '+', then one or more
\* decimal digits (leading zeros allowed) whose value fits a limb; an empty
\* token, a lone sign, a '-' and any other character are errors.
parse(s) ==
    IF Len(s) = 0 THEN Panic
    ELSE LET digits == IF Head(s) = "+" THEN Tail(s) ELSE s
         IN IF Len(digits) = 0 THEN Panic ELSE from_digits(digits, 0)

RECURSIVE chunks(_, _)
\* slice::chunks(n): consecutive slices of n elements, the last one shorter
\* when the length is no multiple of n.
chunks(seq, n) ==
    IF Len(seq) = 0 THEN <<>>
    ELSE <<SubSeq(seq, 1, Min(n, Len(seq)))>>
             \o chunks(SubSeq(seq, Min(n, Len(seq)) + 1, Len(seq)), n)

\* chunk[from..to] of a 0-based slice: panics when to is past the end.
slice(chunk, from, to) ==
    IF to > Len(chunk) THEN Panic ELSE Ok(SubSeq(chunk, from + 1, to))

\* <[u64; NUM_LIMBS]>::try_from(slice).unwrap(): the length must be NUM_LIMBS.
try_into(limbs) == IF Len(limbs) = NUM_LIMBS THEN Ok(limbs) ELSE Panic

RECURSIVE BigValue(_)
\* The integer a BigInteger384 holds: limbs[0] is the least significant.
BigValue(limbs) ==
    IF Len(limbs) = 0 THEN 0
    ELSE Head(limbs) + LimbRadix * BigValue(Tail(limbs))

\* BigInteger384::new(limbs).into(): the field element of that integer;
\* panics when the integer is not below the modulus.
into(limbs) == IF BigValue(limbs) < P THEN Ok(BigValue(limbs)) ELSE Panic

\* The results of a sequence of fallible steps, collected: panics when one did.
collect(rs) ==
    IF \E i \in 1..Len(rs) : ~rs[i].ok THEN Panic
    ELSE Ok(Vec([i \in 1..Len(rs) |-> Val(rs[i])]))

\* One chunk[i*NUM_LIMBS..(i+1)*NUM_LIMBS] made a field element.
element(chunk, i) ==
    LET sl == slice(chunk, i * NUM_LIMBS, (i + 1) * NUM_LIMBS)
        arr == IF sl.ok THEN try_into(Val(sl)) ELSE Panic
    IN IF arr.ok THEN into(Val(arr)) ELSE Panic

\* The tokens of a file parsed: Vec<u64>, or a panic on a missing file or
\* on a token that is no u64.
read_limbs(f) ==
    IF ~f.exists THEN Panic
    ELSE collect(Vec([i \in 1..Len(f.tokens) |-> parse(f.tokens[i])]))

\* Bls12381Parameters::coset.
coset(f) ==
    LET limbs == read_limbs(f)
    IN IF ~limbs.ok THEN Panic
       ELSE LET cs == chunks(Val(limbs), NUM_LIMBS)
            IN collect(Vec([k \in 1..Len(cs) |->
                   LET arr == try_into(cs[k])
                   IN IF arr.ok THEN into(Val(arr)) ELSE Panic]))

\* A faulty variant of isogeny_of_chunk: the denominator is read from groups 2, 3.
isogeny_of_chunk_shifted(chunk) ==
    LET numerator == collect(Vec([i \in 1..3 |-> element(chunk, i - 1)]))
        denominator == collect(Vec([i \in 1..2 |-> element(chunk, i + 1)]))
    IN IF numerator.ok /\ denominator.ok
       THEN Ok([numerator |-> Val(numerator), denominator |-> Val(denominator)])
       ELSE Panic

\* The closure of isogenies: groups 0..3 of the chunk are the numerator,
\* groups 3..5 the denominator.
isogeny_of_chunk(chunk) ==
    LET numerator == collect(Vec([i \in 1..3 |-> element(chunk, i - 1)]))
        denominator == collect(Vec([i \in 1..2 |-> element(chunk, i + 2)]))
    IN IF numerator.ok /\ denominator.ok
       THEN Ok([numerator |-> Val(numerator), denominator |-> Val(denominator)])
       ELSE Panic

\* Bls12381Parameters::isogenies.
isogenies(f) ==
    LET limbs == read_limbs(f)
    IN IF ~limbs.ok THEN Panic
       ELSE LET cs == chunks(Val(limbs), 5 * NUM_LIMBS)
            IN collect(Vec([k \in 1..Len(cs) |-> isogeny_of_chunk(cs[k])]))

------------------------------------------------------------------------------
(* The tables get_params.sage writes for the curve y^2 = x^3 + x + 1 over  *)
(* F: 16 coset points and 3 isogenies, of which a domain of size N uses    *)
(* every (16/N)-th point and the first LOG_N - 1 isogenies.                *)

CosetTable == <<0, 10, 14, 31, 9, 30, 13, 19, 21, 6, 26, 17, 28, 8, 29, 33>>

IsogenyTable ==
    << <<26, 12, 1, 12, 1>>, <<26, 29, 1, 29, 1>>, <<25, 12, 1, 12, 1>> >>

RECURSIVE ToLimbs(_, _)
\* The n limbs of an integer as decimal tokens, least significant first.
ToLimbs(x, n) ==
    IF n = 0 THEN <<>>
    ELSE <<IF x % LimbRadix = 0 THEN <<"0">> ELSE <<"1">>>> \o ToLimbs(x \div LimbRadix, n - 1)

RECURSIVE Flatten(_)
Flatten(seqs) == IF Len(seqs) = 0 THEN <<>> ELSE Head(seqs) \o Flatten(Tail(seqs))

\* The file bls12-381_coset.
CosetFile ==
    [exists |-> TRUE,
     tokens |-> Flatten([i \in 1..N |->
                   ToLimbs(CosetTable[(i - 1) * (Len(CosetTable) \div N) + 1], NUM_LIMBS)])]

\* The file bls12-381_isogenies.
IsogenyFile ==
    [exists |-> TRUE,
     tokens |-> Flatten([k \in 1..(LOG_N - 1) |->
                   Flatten([g \in 1..5 |-> ToLimbs(IsogenyTable[k][g], NUM_LIMBS)])])]

------------------------------------------------------------------------------
(* ecfft: the parameter set, the precomputation, extend and               *)
(* evaluate_over_domain                                                    *)

\* P::coset() and P::isogenies() on the generated tables.
Coset == coset(CosetFile)
Isogenies == isogenies(IsogenyFile)

RECURSIVE trailing_zeros(_)
trailing_zeros(n) == IF n % 2 = 1 THEN 0 ELSE 1 + trailing_zeros(n \div 2)

\* iter().step_by(k): the elements at 0, k, 2k, ...
step_by(seq, k) ==
    Vec([i \in 1..((Len(seq) + k - 1) \div k) |-> seq[(i - 1) * k + 1]])

\* iter().skip(1).step_by(2)
skip1_step2(seq) == Vec([i \in 1..(Len(seq) \div 2) |-> seq[2 * i]])

\* sub_coset(i): the size-N/2^i sub-coset.
sub_coset(i) == step_by(Val(Coset), 2 ^ i)

RECURSIVE poly_evaluate(_, _)
\* DensePolynomial::evaluate (Horner).
poly_evaluate(coeffs, x) ==
    IF Len(coeffs) = 0 THEN 0
    ELSE FAdd(Head(coeffs), FMul(x, poly_evaluate(Tail(coeffs), x)))

\* The evaluations of a polynomial on a sequence of points, in their order.
evals_on(coeffs, points) ==
    Vec([i \in 1..Len(points) |-> poly_evaluate(coeffs, points[i])])

\* The denominator d0 + d1*x of a rational map.
denominator_at(psi, x) == FAdd(psi.denominator[1], FMul(psi.denominator[2], x))

\* Isogeny::evaluate: (n0 + n1*x + n2*x^2) / (d0 + d1*x).
isogeny_evaluate(psi, x) ==
    FDiv(poly_evaluate(psi.numerator, x), denominator_at(psi, x))

\* The row [v(x)^q, x * v(x)^q] of a fold pair's matrix, v the denominator.
fold_row(psi, q, x) ==
    <<FPow(denominator_at(psi, x), q), FMul(x, FPow(denominator_at(psi, x), q))>>

RECURSIVE precompute_steps(_, _, _, _)
\* The loop of precompute_on_coset: one step per halving of s, the k-th with
\* the k-th isogeny; s[j] and s[j + |s|/2] are a fold pair.
precompute_steps(s, s_prime, isos, k) ==
    IF Len(s) < 2 THEN Ok(<<>>)
    ELSE IF k > Len(isos) THEN Panic
    ELSE
    LET nn == Len(s) \div 2
        q == nn - 1
        psi == isos[k]
        inverse_matrices == collect(Vec([j \in 1..nn |->
            inverse(<<fold_row(psi, q, s[j]), fold_row(psi, q, s[j + nn])>>)]))
        matrices == Vec([j \in 1..nn |->
            <<fold_row(psi, q, s_prime[j]), fold_row(psi, q, s_prime[j + nn])>>])
        next_s == collect(Vec([j \in 1..nn |-> isogeny_evaluate(psi, s[j])]))
        next_s_prime == collect(Vec([j \in 1..nn |-> isogeny_evaluate(psi, s_prime[j])]))
    IN IF ~inverse_matrices.ok \/ ~next_s.ok \/ ~next_s_prime.ok THEN Panic
       ELSE LET rest == precompute_steps(Val(next_s), Val(next_s_prime), isos, k + 1)
            IN IF ~rest.ok THEN Panic
               ELSE Ok(<<[s |-> s, s_prime |-> s_prime, matrices |-> matrices,
                          inverse_matrices |-> Val(inverse_matrices)]>> \o Val(rest))

\* precompute_on_coset: s is the even-indexed half of the coset, s_prime the
\* odd-indexed half.
precompute_on_coset(cst) ==
    IF ~Isogenies.ok THEN Panic
    ELSE precompute_steps(step_by(cst, 2), skip1_step2(cst), Val(Isogenies), 1)

\* precompute(): one coset precomputation per sub-coset, of sizes N down to 2.
precompute ==
    IF ~Coset.ok THEN Panic
    ELSE collect(Vec([k \in 1..LOG_N |->
             LET cst == step_by(Val(Coset), 2 ^ (k - 1))
                 st == precompute_on_coset(cst)
             IN IF st.ok THEN Ok([coset |-> cst, steps |-> Val(st)]) ELSE Panic]))

RECURSIVE extend_in_place(_, _)
\* extend_in_place: the halves of evals are folded by the step's inverse
\* matrices, extended recursively, and recombined by its matrices.  The
\* steps are returned as the calls leave them.
extend_in_place(self, evals) ==
    IF Len(evals) = 1 THEN [self |-> self, out |-> evals]
    ELSE
    LET n == Len(evals)
        nn == n \div 2
        idx == Len(self) - trailing_zeros(n) + 1
        fold == Vec([j \in 1..nn |->
                    multiply_in_place(self[idx].inverse_matrices[j], evals[j], evals[j + nn])])
        self1 == [self EXCEPT ![idx].inverse_matrices = Vec([j \in 1..nn |-> fold[j].self])]
        p0 == extend_in_place(self1, Vec([j \in 1..nn |-> fold[j].x]))
        p1 == extend_in_place(p0.self, Vec([j \in 1..nn |-> fold[j].y]))
        comb == Vec([j \in 1..nn |->
                    multiply_in_place(p1.self[idx].matrices[j], p0.out[j], p1.out[j])])
    IN [self |-> [p1.self EXCEPT ![idx].matrices = Vec([j \in 1..nn |-> comb[j].self])],
        out |-> Vec([j \in 1..n |-> IF j <= nn THEN comb[j].x ELSE comb[j - nn].y])]

\* extend: extend_in_place on a copy of evals.
extend(self, evals) == extend_in_place(self, evals)

RECURSIVE evaluate_rec(_, _)
\* The recursion of evaluate_over_domain: the low and the high half of the
\* coefficients are evaluated on the even-indexed half of the coset, extended
\* to the odd-indexed half, and combined as low + x^(n/2) * high.
evaluate_rec(pres, coeffs) ==
    IF Len(coeffs) = 1 THEN [self |-> pres, out |-> coeffs]
    ELSE
    LET n == Len(coeffs)
        nn == n \div 2
        low == evaluate_rec(Tail(pres), SubSeq(coeffs, 1, nn))
        high == evaluate_rec(low.self, SubSeq(coeffs, nn + 1, n))
        cst == pres[1].coset
        low_prime == extend(pres[1].steps, low.out)
        high_prime == extend(low_prime.self, high.out)
    IN [self |-> <<[pres[1] EXCEPT !.steps = high_prime.self]>> \o high.self,
        out |-> Vec([j \in 1..n |->
                   IF j % 2 = 1
                   THEN FAdd(low.out[(j + 1) \div 2],
                             FMul(FPow(cst[j], nn), high.out[(j + 1) \div 2]))
                   ELSE FAdd(low_prime.out[j \div 2],
                             FMul(FPow(cst[j], nn), high_prime.out[j \div 2]))])]

\* evaluate_over_domain: the number of coefficients selects the sub-coset.
evaluate_over_domain(self, coeffs) ==
    LET skip == LOG_N - trailing_zeros(Len(coeffs))
        r == evaluate_rec(SubSeq(self, skip + 1, Len(self)), coeffs)
    IN [self |-> SubSeq(self, 1, skip) \o r.self, out |-> r.out]

------------------------------------------------------------------------------
(* The table files the loads are tried on.                                 *)

\* The most 6-limb groups a file is given.
MaxGroups == 10

\* The most groups of a file that hold an integer not below the modulus.
MaxNonCanonical == 1

\* The limb groups of the elements 1 and 2, and of 2^6 - 1 (not an element).
\* The limbs of 2 are written with a sign and with leading zeros.
One == << <<"1">>, <<"0">>, <<"0">>, <<"0">>, <<"0">>, <<"0">> >>
Two == << <<"+", "0">>, <<"0", "1">>, <<"0", "0">>, <<"+", "0", "0">>, <<"0">>, <<"0">> >>
AllOnes == << <<"1">>, <<"+", "1">>, <<"0", "1">>, <<"1">>, <<"1">>, <<"1">> >>

\* Tokens that are no limb: no numeral, too large, negative, a lone sign.
BadTokens == { <<"x">>, <<"2">>, <<"-", "1">>, <<"+">>, <<"1", "0">> }

NoLoad == [op |-> "none", ok |-> FALSE, val |-> <<>>]

LoadInit ==
    /\ file = [exists |-> TRUE, tokens |-> <<>>]
    /\ loaded = NoLoad

\* Every token is a limb and the tokens are whole groups.
WellFormed(tokens) ==
    /\ Len(tokens) % NUM_LIMBS = 0
    /\ \A i \in 1..Len(tokens) : parse(tokens[i]).ok

NonCanonical(tokens) ==
    Cardinality({k \in 1..(Len(tokens) \div NUM_LIMBS) :
        SubSeq(tokens, (k - 1) * NUM_LIMBS + 1, k * NUM_LIMBS) = AllOnes})

\* The table generator writes one more element.
AppendGroup ==
    /\ loaded.op = "none" /\ file.exists
    /\ WellFormed(file.tokens)
    /\ Len(file.tokens) < MaxGroups * NUM_LIMBS
    /\ \E g \in {One, Two} : file' = [file EXCEPT !.tokens = @ \o g]
    /\ UNCHANGED <<loaded, matVars, ecfftVars, sharedVars>>

\* The file is given a group that is no field element.
AppendNonCanonical ==
    /\ loaded.op = "none" /\ file.exists
    /\ WellFormed(file.tokens)
    /\ Len(file.tokens) < MaxGroups * NUM_LIMBS
    /\ NonCanonical(file.tokens) < MaxNonCanonical
    /\ file' = [file EXCEPT !.tokens = @ \o AllOnes]
    /\ UNCHANGED <<loaded, matVars, ecfftVars, sharedVars>>

\* The file ends in the middle of a group.
AppendLimb ==
    /\ loaded.op = "none" /\ file.exists
    /\ \A i \in 1..Len(file.tokens) : parse(file.tokens[i]).ok
    /\ Len(file.tokens) < MaxGroups * NUM_LIMBS
    /\ Len(file.tokens) % NUM_LIMBS < NUM_LIMBS - 1
    /\ file' = [file EXCEPT !.tokens = @ \o << <<"0">> >>]
    /\ UNCHANGED <<loaded, matVars, ecfftVars, sharedVars>>

\* The file is given a token that is no limb: not a numeral, or too large.
AppendBadToken ==
    /\ loaded.op = "none" /\ file.exists
    /\ WellFormed(file.tokens)
    /\ Len(file.tokens) < MaxGroups * NUM_LIMBS
    /\ \E t \in BadTokens : file' = [file EXCEPT !.tokens = @ \o <<t>>]
    /\ UNCHANGED <<loaded, matVars, ecfftVars, sharedVars>>

\* The file is removed.
RemoveFile ==
    /\ loaded.op = "none" /\ file.exists
    /\ file' = [exists |-> FALSE, tokens |-> <<>>]
    /\ UNCHANGED <<loaded, matVars, ecfftVars, sharedVars>>

\* coset() is called on the file.
LoadCoset ==
    /\ loaded.op = "none"
    /\ LET r == coset(file)
       IN loaded' = [op |-> "coset", ok |-> r.ok, val |-> r.val]
    /\ UNCHANGED <<file, matVars, ecfftVars, sharedVars>>

\* isogenies() is called on the file.
LoadIsogenies ==
    /\ loaded.op = "none"
    /\ LET r == isogenies(file)
       IN loaded' = [op |-> "isogenies", ok |-> r.ok, val |-> r.val]
    /\ UNCHANGED <<file, matVars, ecfftVars, sharedVars>>

------------------------------------------------------------------------------
(* The polynomials the calls are tried on.                                 *)

\* The most calls made on one precomputation.
MaxCalls == 2

\* The most dense polynomials tried per size.
MaxSeed == 4

\* The coefficients of the sparse polynomials tried: 0, 1, 2 and -1.
Coeffs == {0, 1, 2, P - 1}

\* The polynomials of n coefficients with at most two non-zero ones.
Sparse(n) ==
    {Vec([k \in 1..n |-> IF k = j1 THEN c1 ELSE IF k = j2 THEN c2 ELSE 0]) :
        j1 \in 1..n, j2 \in 1..n, c1 \in Coeffs, c2 \in Coeffs}

\* Polynomials of n coefficients, none of them zero.
Dense(n) ==
    {Vec([k \in 1..n |-> FAdd(FMul(seed, FMul(k, k)), 1)]) : seed \in 1..MaxSeed}

Polys(n) == Sparse(n) \cup Dense(n)

------------------------------------------------------------------------------
(* The calls of the tests of bls12_381.rs.                                 *)

NoCall == [op |-> "none", i |-> 0, coeffs |-> <<>>, input |-> <<>>,
           out |-> <<>>, expect |-> <<>>]

\* The callers that hold a reference to one precomputation.
Callers == {1, 2}

\* A caller that is in no call.
Idle == [op |-> "none", i |-> 0, input |-> <<>>, expect |-> <<>>, stack |-> <<>>,
         ret |-> <<>>, out |-> <<>>, done |-> FALSE, overlapped |-> FALSE]

\* A Vec of capacity N not in use.
Zeros == Vec([k \in 1..N |-> 0])

SharedInit ==
    /\ callers = [c \in Callers |-> Idle]
    /\ bufs = [c \in Callers |-> Zeros]

EcfftInit ==
    /\ steps = [built |-> FALSE, stride |-> 0, ok |-> FALSE, val |-> <<>>, calls |-> 0]
    /\ precomputation = [built |-> FALSE, ok |-> FALSE, val |-> <<>>, calls |-> 0]
    /\ call = NoCall

\* test_precompute, and the first line of test_extend: precompute_on_coset
\* on the base coset (stride 1) or on every other element of it (stride 2).
TestPrecompute ==
    /\ call.op = "none"
    /\ \E stride \in {1, 2} :
         LET r == IF Coset.ok THEN precompute_on_coset(step_by(Val(Coset), stride))
                  ELSE Panic
         IN steps' = [built |-> TRUE, stride |-> stride, ok |-> r.ok, val |-> r.val,
                      calls |-> 0]
    /\ UNCHANGED <<precomputation, call, matVars, loadVars, sharedVars>>

\* test_extend_i: a polynomial of 2^i coefficients is evaluated on s and on
\* s_prime of step LOG_N - 1 - i and its evaluations on s are extended.
TestExtend ==
    /\ call.op = "none"
    /\ steps.built /\ steps.ok /\ steps.stride = 1
    /\ steps.calls < MaxCalls
    /\ \E i \in 1..(LOG_N - 1) : \E coeffs \in Polys(2 ^ i) :
         LET st == Val(steps)[(LOG_N - 1 - i) + 1]
             evals_s == evals_on(coeffs, st.s)
             evals_s_prime == evals_on(coeffs, st.s_prime)
             r == extend(Val(steps), evals_s)
         IN /\ call' = [op |-> "extend", i |-> i, coeffs |-> coeffs,
                        input |-> evals_s, out |-> r.out, expect |-> evals_s_prime]
            /\ steps' = [steps EXCEPT !.val = <<r.self>>, !.calls = @ + 1]
    /\ UNCHANGED <<precomputation, matVars, loadVars, sharedVars>>

\* The first line of test_eval: precompute().
Precompute ==
    /\ call.op = "none"
    /\ \A c \in Callers : callers[c].op = "none"
    /\ LET r == precompute
       IN precomputation' = [built |-> TRUE, ok |-> r.ok, val |-> r.val, calls |-> 0]
    /\ UNCHANGED <<steps, call, matVars, loadVars, sharedVars>>

\* A round of test_eval, i in 0..LOG_N (LOG_N excluded): a polynomial of
\* N/2^i coefficients is evaluated naively on sub_coset(i) and by
\* evaluate_over_domain.
TestEval ==
    /\ call.op = "none"
    /\ precomputation.built /\ precomputation.ok
    /\ precomputation.calls < MaxCalls
    /\ \E i \in 0..(LOG_N - 1) : \E coeffs \in Polys(N \div (2 ^ i)) :
         LET evals == evals_on(coeffs, sub_coset(i))
             r == evaluate_over_domain(Val(precomputation), coeffs)
         IN /\ call' = [op |-> "eval", i |-> i, coeffs |-> coeffs,
                        input |-> coeffs, out |-> r.out, expect |-> evals]
            /\ precomputation' = [precomputation EXCEPT !.val = <<r.self>>, !.calls = @ + 1]
    /\ UNCHANGED <<steps, matVars, loadVars, sharedVars>>

\* evaluate_over_domain on one coefficient, which no round of test_eval
\* reaches: the constant polynomial, compared with its value at the one
\* point of sub_coset(LOG_N).
EvaluateConstant ==
    /\ call.op = "none"
    /\ precomputation.built /\ precomputation.ok
    /\ precomputation.calls < MaxCalls
    /\ \E coeffs \in Polys(1) :
         LET evals == evals_on(coeffs, sub_coset(LOG_N))
             r == evaluate_over_domain(Val(precomputation), coeffs)
         IN /\ call' = [op |-> "eval", i |-> LOG_N, coeffs |-> coeffs,
                        input |-> coeffs, out |-> r.out, expect |-> evals]
            /\ precomputation' = [precomputation EXCEPT !.val = <<r.self>>, !.calls = @ + 1]
    /\ UNCHANGED <<steps, matVars, loadVars, sharedVars>>

\* The call has returned and its values are dropped; the precomputations stay.
Return ==
    /\ call.op # "none"
    /\ call' = NoCall
    /\ UNCHANGED <<steps, precomputation, matVars, loadVars, sharedVars>>

------------------------------------------------------------------------------
(* Calls of several callers on one precomputation.  A call advances one    *)
(* stage at a time: a stage is one loop over the fold pairs of a step      *)
(* (extend_in_place) or one statement of the recursion of                  *)
(* evaluate_over_domain, and the stages of the callers interleave.  Each   *)
(* caller keeps the frames of its recursion on its own stack.              *)

\* The most polynomials a caller tries per size.
MaxSharedSeed == 1

\* The polynomials of n coefficients caller c tries, none of their
\* coefficients zero: the callers' first polynomials differ.
SharedPolys(c, n) ==
    {Vec([k \in 1..n |-> FAdd(FMul(seed, FMul(k, k)), 1)]) :
        seed \in c..(c + MaxSharedSeed - 1)}

\* A faulty variant of slot: every call works in the Vec of caller 1.
slot_shared(c) == 1

\* The Vec an extend works in: evals.to_vec(), owned by the call.
slot(c) == c

\* vals copied into the first places of a Vec.
store(buf, vals) ==
    Vec([k \in 1..Len(buf) |-> IF k <= Len(vals) THEN vals[k] ELSE buf[k]])

\* The first n places of a Vec.
load(buf, n) == SubSeq(buf, 1, n)

\* A frame of the recursion: extend_in_place on the places lo+1 .. lo+n of
\* the caller's Vec with the steps of the level-th coset precomputation, or
\* the recursion of evaluate_over_domain on coeffs from the level-th one on.
Frame(kind, pc, level, lo, n, coeffs) ==
    [kind |-> kind, pc |-> pc, level |-> level, lo |-> lo, n |-> n,
     coeffs |-> coeffs, low |-> <<>>, high |-> <<>>, low_prime |-> <<>>]

\* The caller is in a call that has not returned yet.
Active(c) == callers[c].op # "none"

\* The top frame of the caller's stack is of this kind at this statement.
At(c, kind, pc) ==
    /\ callers[c].op # "none" /\ ~callers[c].done
    /\ Len(callers[c].stack) > 0
    /\ Head(callers[c].stack).kind = kind
    /\ Head(callers[c].stack).pc = pc

\* The callers as they are when caller c begins the call rec: every call
\* under way, and the new one if there is one, has overlapped another.
Begin(c, rec) ==
    LET other == \E o \in Callers \ {c} : Active(o)
    IN [o \in Callers |->
          IF o = c THEN [rec EXCEPT !.overlapped = other]
          ELSE IF Active(o) THEN [callers[o] EXCEPT !.overlapped = TRUE]
          ELSE callers[o]]

\* The index of the step that folds n values, among the steps of a coset
\* precomputation.
step_index(sts, n) == Len(sts) - trailing_zeros(n) + 1

\* A caller calls extend, as test_extend_i does, on the steps of the base
\* coset: the evaluations on s of a polynomial of 2^i coefficients.
CallExtend ==
    /\ call.op = "none"
    /\ precomputation.built /\ precomputation.ok
    /\ \E c \in Callers : \E i \in 1..(LOG_N - 1) : \E coeffs \in SharedPolys(c, 2 ^ i) :
         LET st == Val(precomputation)[1].steps[(LOG_N - 1 - i) + 1]
             evals_s == evals_on(coeffs, st.s)
         IN /\ callers[c].op = "none"
            /\ callers' = Begin(c, [Idle EXCEPT
                   !.op = "extend", !.i = i, !.input = evals_s,
                   !.expect = evals_on(coeffs, st.s_prime),
                   !.stack = <<Frame("extend", "fold", 1, 0, Len(evals_s), <<>>),
                               Frame("top", "extend", 1, 0, Len(evals_s), <<>>)>>])
            /\ bufs' = [bufs EXCEPT ![slot(c)] = store(@, evals_s)]
    /\ UNCHANGED <<steps, precomputation, call, matVars, loadVars>>

\* A caller calls evaluate_over_domain, as a round of test_eval does.
CallEvaluate ==
    /\ call.op = "none"
    /\ precomputation.built /\ precomputation.ok
    /\ \E c \in Callers : \E i \in 0..(LOG_N - 1) : \E coeffs \in SharedPolys(c, N \div (2 ^ i)) :
         LET skip == LOG_N - trailing_zeros(Len(coeffs))
         IN /\ callers[c].op = "none"
            /\ callers' = Begin(c, [Idle EXCEPT
                   !.op = "eval", !.i = i, !.input = coeffs,
                   !.expect = evals_on(coeffs, sub_coset(i)),
                   !.stack = <<Frame("eval", "split", skip + 1, 0, Len(coeffs), coeffs),
                               Frame("top", "eval", 1, 0, Len(coeffs), <<>>)>>])
    /\ UNCHANGED <<steps, precomputation, call, bufs, matVars, loadVars>>

\* extend_in_place, the first loop: the fold pairs of the frame's places go
\* through the inverse matrices of the step; the halves are extended next,
\* the first before the second (a half of one value is extended already).
ExtendFold ==
    \E c \in Callers :
      /\ At(c, "extend", "fold")
      /\ LET f == Head(callers[c].stack)
             nn == f.n \div 2
             sts == Val(precomputation)[f.level].steps
             idx == step_index(sts, f.n)
             buf == bufs[slot(c)]
             fold == Vec([j \in 1..nn |->
                         multiply_in_place(sts[idx].inverse_matrices[j],
                                           buf[f.lo + j], buf[f.lo + nn + j])])
             halves == IF nn > 1
                       THEN <<Frame("extend", "fold", f.level, f.lo, nn, <<>>),
                              Frame("extend", "fold", f.level, f.lo + nn, nn, <<>>)>>
                       ELSE <<>>
         IN IF f.n = 1
            THEN /\ callers' = [callers EXCEPT ![c].stack = Tail(@)]
                 /\ UNCHANGED <<bufs, precomputation>>
            ELSE /\ callers' = [callers EXCEPT ![c].stack =
                        halves \o <<[f EXCEPT !.pc = "combine"]>> \o Tail(@)]
                 /\ bufs' = [bufs EXCEPT ![slot(c)] = Vec([k \in 1..Len(buf) |->
                        IF k > f.lo /\ k <= f.lo + nn THEN fold[k - f.lo].x
                        ELSE IF k > f.lo + nn /\ k <= f.lo + f.n THEN fold[k - f.lo - nn].y
                        ELSE buf[k]])]
                 /\ precomputation' = [precomputation EXCEPT !.val =
                        <<[Val(precomputation) EXCEPT ![f.level].steps[idx].inverse_matrices =
                             Vec([j \in 1..nn |-> fold[j].self])]>>]
      /\ UNCHANGED <<steps, call, matVars, loadVars>>

\* extend_in_place, the second loop: the extended halves go through the
\* matrices of the step, and the frame returns.
ExtendCombine ==
    \E c \in Callers :
      /\ At(c, "extend", "combine")
      /\ LET f == Head(callers[c].stack)
             nn == f.n \div 2
             sts == Val(precomputation)[f.level].steps
             idx == step_index(sts, f.n)
             buf == bufs[slot(c)]
             comb == Vec([j \in 1..nn |->
                         multiply_in_place(sts[idx].matrices[j],
                                           buf[f.lo + j], buf[f.lo + nn + j])])
         IN /\ callers' = [callers EXCEPT ![c].stack = Tail(@)]
            /\ bufs' = [bufs EXCEPT ![slot(c)] = Vec([k \in 1..Len(buf) |->
                   IF k > f.lo /\ k <= f.lo + nn THEN comb[k - f.lo].x
                   ELSE IF k > f.lo + nn /\ k <= f.lo + f.n THEN comb[k - f.lo - nn].y
                   ELSE buf[k]])]
            /\ precomputation' = [precomputation EXCEPT !.val =
                   <<[Val(precomputation) EXCEPT ![f.level].steps[idx].matrices =
                        Vec([j \in 1..nn |-> comb[j].self])]>>]
      /\ UNCHANGED <<steps, call, matVars, loadVars>>

\* The recursion of evaluate_over_domain begins: one coefficient is
\* returned as it is, else the low half of the coefficients is evaluated.
EvaluateSplit ==
    \E c \in Callers :
      /\ At(c, "eval", "split")
      /\ LET f == Head(callers[c].stack)
             nn == f.n \div 2
         IN IF f.n = 1
            THEN callers' = [callers EXCEPT ![c].stack = Tail(@), ![c].ret = f.coeffs]
            ELSE callers' = [callers EXCEPT ![c].stack =
                   <<Frame("eval", "split", f.level + 1, 0, nn, SubSeq(f.coeffs, 1, nn)),
                     [f EXCEPT !.pc = "low"]>> \o Tail(@)]
      /\ UNCHANGED <<steps, precomputation, call, bufs, matVars, loadVars>>

\* The low half has returned: the high half is evaluated.
EvaluateLow ==
    \E c \in Callers :
      /\ At(c, "eval", "low")
      /\ LET f == Head(callers[c].stack)
             nn == f.n \div 2
         IN callers' = [callers EXCEPT ![c].stack =
                <<Frame("eval", "split", f.level + 1, 0, nn, SubSeq(f.coeffs, nn + 1, f.n)),
                  [f EXCEPT !.pc = "high", !.low = callers[c].ret]>> \o Tail(@)]
      /\ UNCHANGED <<steps, precomputation, call, bufs, matVars, loadVars>>

\* The high half has returned: extend is called on the values of the low
\* half, which it copies to the Vec it works in.
EvaluateHigh ==
    \E c \in Callers :
      /\ At(c, "eval", "high")
      /\ LET f == Head(callers[c].stack)
             nn == f.n \div 2
         IN /\ callers' = [callers EXCEPT ![c].stack =
                   <<Frame("extend", "fold", f.level, 0, nn, <<>>),
                     [f EXCEPT !.pc = "low_prime", !.high = callers[c].ret]>> \o Tail(@)]
            /\ bufs' = [bufs EXCEPT ![slot(c)] = store(@, f.low)]
      /\ UNCHANGED <<steps, precomputation, call, matVars, loadVars>>

\* The extend of the low half has returned: extend is called on the values
\* of the high half.
EvaluateLowPrime ==
    \E c \in Callers :
      /\ At(c, "eval", "low_prime")
      /\ LET f == Head(callers[c].stack)
             nn == f.n \div 2
         IN /\ callers' = [callers EXCEPT ![c].stack =
                   <<Frame("extend", "fold", f.level, 0, nn, <<>>),
                     [f EXCEPT !.pc = "high_prime",
                               !.low_prime = load(bufs[slot(c)], nn)]>> \o Tail(@)]
            /\ bufs' = [bufs EXCEPT ![slot(c)] = store(@, f.high)]
      /\ UNCHANGED <<steps, precomputation, call, matVars, loadVars>>

\* The extend of the high half has returned: the values on the coset are
\* low + x^(n/2) * high, on its even-indexed half from the halves and on its
\* odd-indexed half from their extensions, and the frame returns them.
EvaluateCombine ==
    \E c \in Callers :
      /\ At(c, "eval", "high_prime")
      /\ LET f == Head(callers[c].stack)
             nn == f.n \div 2
             cst == Val(precomputation)[f.level].coset
             high_prime == load(bufs[slot(c)], nn)
             out == Vec([j \in 1..f.n |->
                       IF j % 2 = 1
                       THEN FAdd(f.low[(j + 1) \div 2],
                                 FMul(FPow(cst[j], nn), f.high[(j + 1) \div 2]))
                       ELSE FAdd(f.low_prime[j \div 2],
                                 FMul(FPow(cst[j], nn), high_prime[j \div 2]))])
         IN callers' = [callers EXCEPT ![c].stack = Tail(@), ![c].ret = out]
      /\ UNCHANGED <<steps, precomputation, call, bufs, matVars, loadVars>>

\* The call returns its Vec to the caller.
CallFinish ==
    \E c \in Callers :
      /\ callers[c].op # "none" /\ ~callers[c].done
      /\ Len(callers[c].stack) > 0
      /\ Head(callers[c].stack).kind = "top"
      /\ LET f == Head(callers[c].stack)
         IN callers' = [callers EXCEPT
                ![c].stack = <<>>,
                ![c].ret = <<>>,
                ![c].done = TRUE,
                ![c].out = IF f.pc = "extend" THEN load(bufs[slot(c)], f.n)
                           ELSE callers[c].ret]
      /\ UNCHANGED <<steps, precomputation, call, bufs, matVars, loadVars>>

\* The caller drops what the call returned.
CallReturn ==
    \E c \in Callers :
      /\ callers[c].done
      /\ callers' = [callers EXCEPT ![c] = Idle]
      /\ bufs' = [bufs EXCEPT ![slot(c)] = Zeros]
      /\ UNCHANGED <<steps, precomputation, call, matVars, loadVars>>

------------------------------------------------------------------------------
(* The specifications.                                                     *)

Init == MatInit /\ LoadInit /\ EcfftInit /\ SharedInit

MatNext ==
    \/ TestInverse
    \/ MultiplyInPlace
    \/ MatReturn

LoadNext ==
    \/ AppendGroup
    \/ AppendNonCanonical
    \/ AppendLimb
    \/ AppendBadToken
    \/ RemoveFile
    \/ LoadCoset
    \/ LoadIsogenies

EcfftNext ==
    \/ TestPrecompute
    \/ TestExtend
    \/ Precompute
    \/ TestEval
    \/ EvaluateConstant
    \/ Return

\* The matrix calls.
SpecMatrix == Init /\ [][MatNext]_vars

\* The loads of the table files.
SpecLoad == Init /\ [][LoadNext]_vars

SharedNext ==
    \/ Precompute
    \/ CallExtend
    \/ CallEvaluate
    \/ ExtendFold
    \/ ExtendCombine
    \/ EvaluateSplit
    \/ EvaluateLow
    \/ EvaluateHigh
    \/ EvaluateLowPrime
    \/ EvaluateCombine
    \/ CallFinish
    \/ CallReturn

\* The precomputations and the calls on them.
SpecEcfft == Init /\ [][EcfftNext]_vars

\* The calls of several callers on one precomputation, interleaved.
SpecShared == Init /\ [][SharedNext]_vars

Next == MatNext \/ LoadNext \/ EcfftNext \/ SharedNext

Spec == Init /\ [][Next]_vars

------------------------------------------------------------------------------
(* The claims.                                                             *)

\* C1: for every matrix with a non-zero determinant and every pair v, the
\* inverse exists, and inverse(m) * (m * v) = v and m * (inverse(m) * v) = v.
C1_InverseLaw ==
    (mop = "test_inverse" /\ det(mat0) # 0) =>
        /\ mat_inv.ok
        /\ fwd = v
        /\ bwd = v

\* C1 happens: an invertible matrix with no zero entry off the diagonal has
\* sent a non-zero pair back to itself in both orders.
C1_Witness ==
    /\ mop = "test_inverse"
    /\ det(mat0) # 0
    /\ mat0[1][2] # 0 /\ mat0[2][1] # 0
    /\ v[1] # 0 /\ v[2] # 0
    /\ mat_inv.ok /\ fwd = v /\ bwd = v

\* C6: inverse of a matrix whose determinant is zero fails: it returns no
\* matrix.
C6_SingularFails ==
    (mop = "test_inverse" /\ det(mat0) = 0) => ~mat_inv.ok

\* C6 happens: a singular matrix that is not the zero matrix was inverted
\* and the call failed.
C6_Witness ==
    /\ mop = "test_inverse"
    /\ det(mat0) = 0
    /\ \A i \in 1..2, j \in 1..2 : mat0[i][j] # 0
    /\ ~mat_inv.ok

\* C9: after multiply_in_place the bindings hold multiply(m, [x0, y0]) =
\* [a*x0 + b*y0, c*x0 + d*y0], both computed from the values before the
\* call, and the matrix is unchanged.
C9_InPlaceIsMultiply ==
    mop = "multiply_in_place" =>
        /\ xy = multiply(mat0, v)
        /\ xy[1] = (mat0[1][1] * v[1] + mat0[1][2] * v[2]) % P
        /\ xy[2] = (mat0[2][1] * v[1] + mat0[2][2] * v[2]) % P
        /\ mat = mat0

\* C9 happens: a call that changed x, with c non-zero, so that a new y
\* computed from the new x would differ.
C9_Witness ==
    /\ mop = "multiply_in_place"
    /\ mat0[2][1] # 0
    /\ xy[1] # v[1]
    /\ xy = multiply(mat0, v)
    /\ mat = mat0

\* The field element of the g-th 6-limb group of a file (g from 0), limb i
\* weighing LimbRadix^i; a limb is 1 when its numeral has the digit 1 and 0
\* when it has only zeros.
GroupValue(tokens, g) ==
    LET tok(i) == tokens[g * NUM_LIMBS + i + 1]
        limb(i) == IF \E c \in 1..Len(tok(i)) : tok(i)[c] = "1" THEN 1 ELSE 0
    IN limb(0) + limb(1) * LimbRadix + limb(2) * LimbRadix ^ 2
         + limb(3) * LimbRadix ^ 3 + limb(4) * LimbRadix ^ 4 + limb(5) * LimbRadix ^ 5

\* C7: a load is fatal when the file is missing, when a token is no
\* integer, when the limbs are no whole number of elements (of isogenies),
\* and when the number of elements (of isogenies) is not N (LOG_N - 1).
C7_LoadFatal ==
    /\ loaded.op = "coset" =>
         ((\/ ~file.exists
           \/ \E i \in 1..Len(file.tokens) : ~parse(file.tokens[i]).ok
           \/ Len(file.tokens) % NUM_LIMBS # 0
           \/ Len(file.tokens) # N * NUM_LIMBS) => ~loaded.ok)
    /\ loaded.op = "isogenies" =>
         ((\/ ~file.exists
           \/ \E i \in 1..Len(file.tokens) : ~parse(file.tokens[i]).ok
           \/ Len(file.tokens) % (5 * NUM_LIMBS) # 0
           \/ Len(file.tokens) # (LOG_N - 1) * 5 * NUM_LIMBS) => ~loaded.ok)

\* C8: isogenies() makes one isogeny of each consecutive chunk of 5 groups,
\* in file order: groups 0, 1, 2 are the numerator and groups 3, 4 the
\* denominator; coset() makes one element of each group, in file order.
C8_DecodeOrder ==
    /\ (loaded.op = "coset" /\ loaded.ok) =>
          /\ Len(Val(loaded)) * NUM_LIMBS = Len(file.tokens)
          /\ \A k \in 1..Len(Val(loaded)) :
                Val(loaded)[k] = GroupValue(file.tokens, k - 1)
    /\ (loaded.op = "isogenies" /\ loaded.ok) =>
          /\ Len(Val(loaded)) * 5 * NUM_LIMBS = Len(file.tokens)
          /\ \A k \in 1..Len(Val(loaded)) :
                /\ Len(Val(loaded)[k].numerator) = 3
                /\ Len(Val(loaded)[k].denominator) = 2
                /\ \A g \in 0..2 : Val(loaded)[k].numerator[g + 1]
                                      = GroupValue(file.tokens, 5 * (k - 1) + g)
                /\ \A g \in 3..4 : Val(loaded)[k].denominator[g - 2]
                                      = GroupValue(file.tokens, 5 * (k - 1) + g)

\* C8 happens: two isogenies were decoded whose coefficients tell the
\* groups and the chunks apart, from limbs some of which are written with a
\* sign or with leading zeros.
C8_Witness ==
    /\ loaded.op = "isogenies" /\ loaded.ok
    /\ \E i \in 1..Len(file.tokens) : Len(file.tokens[i]) > 1
    /\ Len(Val(loaded)) = 2
    /\ Val(loaded)[1].numerator = <<1, 2, 2>>
    /\ Val(loaded)[1].denominator = <<1, 2>>
    /\ Val(loaded)[2].numerator = <<2, 1, 1>>
    /\ Val(loaded)[2].denominator = <<2, 1>>

\* The steps of the precomputation on the base coset, freshly built.
FreshSteps == precompute_on_coset(Val(Coset))

\* C2: for every step of the precomputation on the base coset and every
\* polynomial of fewer than |s| + 1 coefficients, extend of its evaluations
\* on s is its evaluations on s_prime, in s_prime's order.
C2_ExtendRoundTrip ==
    call.op = "extend" =>
        /\ Len(call.out) = 2 ^ call.i
        /\ call.out = call.expect
        /\ call.out = evals_on(call.coeffs,
                                Val(FreshSteps)[LOG_N - call.i].s_prime)

\* C2 happens: the evaluations of a polynomial of full degree on the
\* largest s were extended to s_prime.
C2_Witness ==
    /\ call.op = "extend"
    /\ call.i = LOG_N - 1
    /\ call.coeffs[Len(call.coeffs)] # 0
    /\ call.input # call.out
    /\ call.out = call.expect

\* C3: for every i in 0..LOG_N-1 and every polynomial of N/2^i
\* coefficients, evaluate_over_domain is the naive evaluations on
\* sub_coset(i), in its order.
C3_EvalOnSubCoset ==
    (call.op = "eval" /\ call.i <= LOG_N - 1) =>
        /\ Len(call.coeffs) = N \div (2 ^ call.i)
        /\ call.out = evals_on(call.coeffs, sub_coset(call.i))

\* C3 happens: a polynomial of N/2 coefficients of full degree was
\* evaluated on sub_coset(1).
C3_Witness ==
    /\ call.op = "eval"
    /\ call.i = 1
    /\ call.coeffs[Len(call.coeffs)] # 0
    /\ call.coeffs[1] # 0
    /\ Len(call.out) = N \div 2
    /\ call.out = call.expect

\* C4 as stated: for every power of two d from 1 to N and every polynomial
\* of d coefficients, evaluate_over_domain is the naive evaluations on the
\* whole base coset.
C4_FullDomain ==
    call.op = "eval" => call.out = evals_on(call.coeffs, Val(Coset))

\* C4 amended: for every power of two d from 1 to N and every polynomial of
\* d coefficients, evaluate_over_domain has d values, the j-th the naive
\* evaluation at the point (j - 1) * N/d of the base coset (counted from
\* 0); this is the whole base coset only for d = N, and for d = 1 the one
\* value is the constant coefficient.
C4_EvalOnStride ==
    call.op = "eval" =>
        LET d == Len(call.coeffs)
        IN /\ Len(call.out) = d
           /\ \A j \in 1..d :
                 call.out[j] = poly_evaluate(call.coeffs, Val(Coset)[(j - 1) * (N \div d) + 1])
           /\ d = N => call.out = evals_on(call.coeffs, Val(Coset))
           /\ d = 1 => call.out = <<call.coeffs[1]>>

\* C4 happens: a polynomial of N/2 coefficients took N/2 values, which are
\* not its values on the base coset.
C4_Witness ==
    /\ call.op = "eval"
    /\ Len(call.coeffs) = N \div 2
    /\ call.coeffs[Len(call.coeffs)] # 0
    /\ Len(call.out) = N \div 2
    /\ call.out # evals_on(call.coeffs, Val(Coset))

\* C5: on the tables as generated, precompute_on_coset completes on the
\* base coset and on every other element of it: every matrix it inverted
\* has a non-zero determinant and no denominator of an isogeny is zero on
\* the points it is evaluated at.
C5_PrecomputeCompletes ==
    steps.built =>
        /\ steps.ok
        /\ Len(Val(steps)) = LOG_N - steps.stride
        /\ \A k \in 1..Len(Val(steps)) :
              LET st == Val(steps)[k]
              IN /\ Len(st.s) = 2 ^ (LOG_N - steps.stride + 1 - k)
                 /\ Len(st.s_prime) = Len(st.s)
                 /\ Len(st.inverse_matrices) * 2 = Len(st.s)
                 /\ \A j \in 1..Len(st.inverse_matrices) :
                       /\ det(st.inverse_matrices[j]) # 0
                       /\ det(st.matrices[j]) # 0
                 /\ \A j \in 1..Len(st.s) :
                       /\ denominator_at(Val(Isogenies)[k], st.s[j]) # 0
                       /\ denominator_at(Val(Isogenies)[k], st.s_prime[j]) # 0

\* C5 happens: the precomputation on every other element of the base coset
\* was built, with at least one step.
C5_Witness ==
    /\ steps.built /\ steps.ok
    /\ steps.stride = 2
    /\ Len(Val(steps)) >= 1
    /\ Len(Val(steps)[1].inverse_matrices) >= 1

\* The output of the call of caller c made alone on a freshly built
\* precomputation.
Alone(c) ==
    IF callers[c].op = "extend"
    THEN extend(Val(precompute)[1].steps, callers[c].input).out
    ELSE evaluate_over_domain(Val(precompute), callers[c].input).out

====
